---- MODULE Spec2Model ----
(***************************************************************************)
(* synth_rs: the shared note state (NoiseMakerData behind one Mutex), the  *)
(* keyboard loop of main() that presses/releases notes, and the audio      *)
(* source NoiseMaker whose next() advances the clock and mixes/evicts the  *)
(* notes.                                                                  *)
(*                                                                         *)
(* Numbers.  f64 values are modelled as exact rationals n/d extended with  *)
(* NaN and the two infinities, with the IEEE-754 rules for x/0, 0/0,       *)
(* inf*0, inf-inf and for comparisons with NaN.  Rounding is not modelled. *)
(* Time stamps are the f64 dt = num_sample / sample_rate, kept as the      *)
(* normalised fraction.  The source's output rate is 48000 frames per      *)
(* second; the model runs the same code at a much lower rate (the bound    *)
(* sample_rate) so that the instruments' lifetimes of 1.0 s and 1.5 s are  *)
(* a handful of frames away instead of tens of thousands.                  *)
(***************************************************************************)
EXTENDS Integers, Sequences, FiniteSets, TLC

(***************************************************************************)
(* Bounds of the model.                                                    *)
(***************************************************************************)
\* frames per second used by the model in place of 48000
sample_rate == 4
\* next() is not called any more once num_sample has reached this value
MaxSample == 8
\* the keyboard loop polls keys 0 .. NumKeys-1 (the source polls 0 ..= 16)
NumKeys == 2

(***************************************************************************)
(* f64 as extended rationals.                                              *)
(***************************************************************************)
RECURSIVE Gcd(_, _)
Gcd(a, b) == IF b = 0 THEN a ELSE Gcd(b, a % b)

Abs(x) == IF x < 0 THEN -x ELSE x

Sign(x) == IF x < 0 THEN -1 ELSE IF x > 0 THEN 1 ELSE 0

\* the finite value n/d (d # 0), in lowest terms with a positive denominator
Rat(n, d) ==
    LET g == Gcd(Abs(n), Abs(d))
        s == IF d < 0 THEN -1 ELSE 1
    IN  [k |-> "fin", n |-> (s * n) \div g, d |-> (s * d) \div g]

NaN == [k |-> "nan", n |-> 0, d |-> 1]

\* s = 1: +infinity, s = -1: -infinity
Inf(s) == [k |-> "inf", n |-> s, d |-> 1]

Zero == Rat(0, 1)

IsFinite(x) == x.k = "fin"

FNeg(x) == IF x.k = "nan" THEN NaN ELSE [x EXCEPT !.n = -x.n]

FAdd(x, y) ==
    IF x.k = "nan" \/ y.k = "nan" THEN NaN
    ELSE IF x.k = "inf" /\ y.k = "inf" THEN (IF x.n = y.n THEN x ELSE NaN)
    ELSE IF x.k = "inf" THEN x
    ELSE IF y.k = "inf" THEN y
    ELSE Rat(x.n * y.d + y.n * x.d, x.d * y.d)

FSub(x, y) == FAdd(x, FNeg(y))

FMul(x, y) ==
    IF x.k = "nan" \/ y.k = "nan" THEN NaN
    ELSE IF x.k = "inf" \/ y.k = "inf"
         THEN (IF x.n = 0 \/ y.n = 0 THEN NaN ELSE Inf(Sign(x.n) * Sign(y.n)))
    ELSE Rat(x.n * y.n, x.d * y.d)

\* the divisors of the program are never -0.0, so x / 0 takes the sign of x
FDiv(x, y) ==
    IF x.k = "nan" \/ y.k = "nan" THEN NaN
    ELSE IF x.k = "inf"
         THEN (IF y.k = "inf" THEN NaN
               ELSE Inf(x.n * (IF y.n < 0 THEN -1 ELSE 1)))
    ELSE IF y.k = "inf" THEN Zero
    ELSE IF y.n = 0 THEN (IF x.n = 0 THEN NaN ELSE Inf(Sign(x.n)))
    ELSE Rat(x.n * y.d, x.d * y.n)

\* x < y; every comparison with NaN is false
FLt(x, y) ==
    IF x.k = "nan" \/ y.k = "nan" THEN FALSE
    ELSE IF x.k = "inf" THEN (x.n < 0 /\ ~(y.k = "inf" /\ y.n < 0))
    ELSE IF y.k = "inf" THEN y.n > 0
    ELSE x.n * y.d < y.n * x.d

FGt(x, y) == FLt(y, x)

FEq(x, y) == x.k # "nan" /\ y.k # "nan" /\ x = y

FLe(x, y) == FLt(x, y) \/ FEq(x, y)

FGe(x, y) == FLe(y, x)

(***************************************************************************)
(* EnvelopeADSR                                                            *)
(***************************************************************************)
EnvelopeADSR_new ==
    [attack_time |-> Rat(1, 10), decay_time |-> Rat(1, 10),
     sustain_amplitude |-> Rat(1, 1), release_time |-> Rat(2, 10),
     start_amplitude |-> Rat(1, 1)]

\* the silence threshold 0.0001 of amplitude()
Threshold == Rat(1, 10000)

\* the attack / decay / sustain value at `lifetime`: the three ifs that both
\* branches of amplitude() run, starting from the initial 0.0
ads(env, lifetime) ==
    LET a1 == IF FLe(lifetime, env.attack_time)
              THEN FMul(FDiv(lifetime, env.attack_time), env.start_amplitude)
              ELSE Zero
        a2 == IF FGt(lifetime, env.attack_time)
                 /\ FLe(lifetime, FAdd(env.attack_time, env.decay_time))
              THEN FAdd(FMul(FDiv(FSub(lifetime, env.attack_time), env.decay_time),
                             FSub(env.sustain_amplitude, env.start_amplitude)),
                        env.start_amplitude)
              ELSE a1
    IN  IF FGt(lifetime, FAdd(env.attack_time, env.decay_time))
        THEN env.sustain_amplitude
        ELSE a2

\* the value of amplitude() before the final clamp
raw_amplitude(env, dt, dt_on, dt_off) ==
    IF FGt(dt_on, dt_off)
    THEN ads(env, FSub(dt, dt_on))
    ELSE LET release_amplitude == ads(env, FSub(dt_off, dt_on))
         IN  FAdd(FMul(FDiv(FSub(dt, dt_off), env.release_time),
                       FNeg(release_amplitude)),
                  release_amplitude)

amplitude(env, dt, dt_on, dt_off) ==
    LET a == raw_amplitude(env, dt, dt_on, dt_off)
    IN  IF FLe(a, Threshold) THEN Zero ELSE a

(***************************************************************************)
(* Instruments                                                             *)
(***************************************************************************)
\* the trait's default max_lifetime()
Instrument_max_lifetime == Rat(1, 1)

Default_new ==
    [name |-> "Default", env |-> EnvelopeADSR_new,
     max_lifetime |-> Instrument_max_lifetime]

DrumKick_new ==
    [name |-> "DrumKick",
     env |-> [EnvelopeADSR_new EXCEPT !.attack_time = Rat(1, 100),
                                      !.decay_time = Rat(15, 100),
                                      !.sustain_amplitude = Zero,
                                      !.release_time = Zero],
     max_lifetime |-> Rat(15, 10)]

Bell_new ==
    [name |-> "Bell",
     env |-> [EnvelopeADSR_new EXCEPT !.attack_time = Rat(1, 100),
                                      !.decay_time = Rat(1, 1),
                                      !.sustain_amplitude = Zero,
                                      !.release_time = Rat(1, 1)],
     max_lifetime |-> Instrument_max_lifetime]

Bell8_new ==
    [name |-> "Bell8",
     env |-> [EnvelopeADSR_new EXCEPT !.attack_time = Rat(1, 100),
                                      !.decay_time = Rat(1, 1),
                                      !.sustain_amplitude = Rat(8, 10),
                                      !.release_time = Rat(1, 1)],
     max_lifetime |-> Instrument_max_lifetime]

Harmonica_new ==
    [name |-> "Harmonica",
     env |-> [EnvelopeADSR_new EXCEPT !.attack_time = Rat(5, 100),
                                      !.decay_time = Rat(1, 1),
                                      !.sustain_amplitude = Rat(95, 100),
                                      !.release_time = Rat(1, 10)],
     max_lifetime |-> Instrument_max_lifetime]

\* the second component of play_note's result
finished(inst, dt, note) ==
    FGt(inst.max_lifetime, Zero) /\ FGe(FSub(dt, note.on), inst.max_lifetime)

\* play_note: the sample is amplitude * (weighted oscillators) * volume; the
\* oscillator factor is a finite number the model does not compute, so the
\* sound is kept as the note's id with its envelope amplitude
play_note(inst, dt, note) ==
    [sound |-> [id |-> note.id,
                amp |-> amplitude(inst.env, dt, note.on, note.off)],
     finished |-> finished(inst, dt, note)]

(***************************************************************************)
(* State                                                                   *)
(***************************************************************************)
VARIABLES
    instruments,   \* NoiseMaker.instruments, fixed at construction
    num_sample,    \* NoiseMakerData.num_sample
    dt,            \* NoiseMakerData.dt, the clock
    notes,         \* NoiseMakerData.notes
    lock,          \* holder of the Mutex: "free", "input" or "audio"
    poisoned,      \* the Mutex is poisoned: every later lock() is Err
    pcIn,          \* position of the keyboard loop of main()
    key,           \* its loop variable
    is_pressed,    \* its local is_pressed
    in_dt,         \* its local dt
    branch,        \* which branch of the note edit the loop body took
    pcAu,          \* position of the audio thread in next() / make_noise()
    mixed_output,  \* make_noise's local: the sounds summed so far
    noise,         \* the sample next() returned last
    arm,           \* the arm of make_noise's match that produced it
    probe          \* a single call of a pure function (SpecEnv, SpecNote)

vars == <<instruments, num_sample, dt, notes, lock, poisoned, pcIn, key,
          is_pressed, in_dt, branch, pcAu, mixed_output, noise, arm, probe>>

fixed == <<instruments, probe>>

shared == <<num_sample, dt, notes>>
inputLocals == <<pcIn, key, is_pressed, in_dt, branch>>
audioLocals == <<pcAu, mixed_output, noise, arm>>

octave == 4
octave_offset == 12 * (octave + 1)

\* let note_id = key + octave_offset;
note_id == key + octave_offset

\* the master gain of make_noise
MasterGain == Rat(2, 10)

\* a sample: the master gain times the sum of the sounds in terms
Sample(terms) == [gain |-> MasterGain, terms |-> terms]

\* the sample 0.0
Silence == Sample(<<>>)

\* no call of amplitude is being looked at
NoProbe == [env |-> EnvelopeADSR_new, now |-> Zero, on |-> Zero, off |-> Zero,
            amp |-> Zero, done |-> FALSE]

NoiseMakerData_new == [num_sample |-> 0, dt |-> Zero, notes |-> <<>>]

Init ==
    /\ instruments \in {<<Default_new>>, <<DrumKick_new>>}
    /\ num_sample = NoiseMakerData_new.num_sample
    /\ dt = NoiseMakerData_new.dt
    /\ notes = NoiseMakerData_new.notes
    /\ lock = "free"
    /\ poisoned = FALSE
    /\ pcIn = "poll"
    /\ key = 0
    /\ is_pressed = FALSE
    /\ in_dt = Zero
    /\ branch = "none"
    /\ pcAu = "idle"
    /\ mixed_output = <<>>
    /\ noise = Silence
    /\ arm = "none"
    /\ probe = NoProbe

(***************************************************************************)
(* The Mutex                                                               *)
(***************************************************************************)
\* a lock() that returns whether or not the Mutex is held
lock_unguarded == TRUE

\* lock() returns only when no thread holds the Mutex
lock_free == lock = "free"

(***************************************************************************)
(* main(): the keyboard loop                                               *)
(***************************************************************************)
\* a find that compares the note's id with the key instead of the note_id
find_note_by_key(ns, nid) ==
    IF \E i \in 1..Len(ns) : ns[i].id = nid - octave_offset
    THEN CHOOSE i \in 1..Len(ns) : ns[i].id = nid - octave_offset
    ELSE 0

\* data.notes.iter_mut().find(|note| note.id == note_id): the index of the
\* first note with that id, 0 when there is none
find_note(ns, nid) ==
    IF \E i \in 1..Len(ns) : ns[i].id = nid
    THEN CHOOSE i \in 1..Len(ns) :
            /\ ns[i].id = nid
            /\ \A j \in 1..(i - 1) : ns[j].id # nid
    ELSE 0

\* a new note whose off is stamped with the clock like its on
new_note_off_now(nid, now) ==
    [id |-> nid, on |-> now, off |-> now, channel |-> 0, active |-> TRUE]

\* the NoiseMakerNote pushed for a key that has no note
new_note(nid, now) ==
    [id |-> nid, on |-> now, off |-> Zero, channel |-> 0, active |-> TRUE]

\* a pressed key whose note is in the list
press_found(note, now) ==
    IF FGt(note.off, note.on)
    THEN [note EXCEPT !.on = now, !.active = TRUE]
    ELSE note

\* a release that tests off <= on in place of off < on
release_found_le(note, now) ==
    IF FLe(note.off, note.on)
    THEN [note EXCEPT !.off = now]
    ELSE note

\* a key that is not pressed and whose note is in the list
release_found(note, now) ==
    IF FLt(note.off, note.on)
    THEN [note EXCEPT !.off = now]
    ELSE note

\* the body of `if let Ok(mut data) = data.lock()` up to the print!
note_event(ns, now, nid, pressed) ==
    LET i == find_note(ns, nid)
    IN  IF i # 0
        THEN [ns EXCEPT ![i] = IF pressed THEN press_found(ns[i], now)
                                          ELSE release_found(ns[i], now)]
        ELSE IF pressed THEN Append(ns, new_note(nid, now))
        ELSE ns

\* the branch note_event takes
note_branch(ns, nid, pressed) ==
    LET i == find_note(ns, nid)
    IN  IF i # 0
        THEN IF pressed
             THEN (IF FGt(ns[i].off, ns[i].on) THEN "rearm" ELSE "held")
             ELSE (IF FLt(ns[i].off, ns[i].on) THEN "release" ELSE "idle")
        ELSE IF pressed THEN "create" ELSE "absent"

\* is_key_pressed(key, &keys), then data.lock() returns Ok
InputLock ==
    /\ pcIn = "poll"
    /\ ~poisoned
    /\ lock_free
    /\ lock' = "input"
    /\ is_pressed' \in BOOLEAN
    /\ pcIn' = "locked"
    /\ UNCHANGED <<fixed, shared, poisoned, key, in_dt, branch, audioLocals>>

\* let dt = data.dt;
InputReadClock ==
    /\ pcIn = "locked"
    /\ in_dt' = dt
    /\ pcIn' = "edit"
    /\ UNCHANGED <<fixed, shared, lock, poisoned, key, is_pressed, branch,
                   audioLocals>>

\* the find and the edit or push
InputNoteEvent ==
    /\ pcIn = "edit"
    /\ notes' = note_event(notes, in_dt, note_id, is_pressed)
    /\ branch' = note_branch(notes, note_id, is_pressed)
    /\ pcIn' = "print"
    /\ UNCHANGED <<fixed, num_sample, dt, lock, poisoned, key, is_pressed,
                   in_dt, audioLocals>>

\* print! returns, the guard is dropped, the for loop moves to the next key
InputUnlock ==
    /\ pcIn = "print"
    /\ lock' = "free"
    /\ key' = (key + 1) % NumKeys
    /\ is_pressed' = FALSE
    /\ in_dt' = Zero
    /\ branch' = "none"
    /\ pcIn' = "poll"
    /\ UNCHANGED <<fixed, shared, poisoned, audioLocals>>

\* print! panics (stdout is gone): the guard is dropped during unwinding, which
\* poisons the Mutex, and the keyboard loop is over
InputPanic ==
    /\ pcIn = "print"
    /\ lock' = "free"
    /\ poisoned' = TRUE
    /\ is_pressed' = FALSE
    /\ in_dt' = Zero
    /\ branch' = "none"
    /\ pcIn' = "dead"
    /\ UNCHANGED <<fixed, shared, key, audioLocals>>

(***************************************************************************)
(* NoiseMaker: next() and make_noise()                                     *)
(***************************************************************************)
\* a closure that marks every note its instrument reports finished
mark_notes_finished(insts, now, ns) ==
    [i \in 1..Len(ns) |->
        IF play_note(insts[ns[i].channel + 1], now, ns[i]).finished
        THEN [ns[i] EXCEPT !.active = FALSE]
        ELSE ns[i]]

\* the closure of the map in make_noise applied to every note: the notes with
\* their active flag updated
mark_notes(insts, now, ns) ==
    [i \in 1..Len(ns) |->
        IF play_note(insts[ns[i].channel + 1], now, ns[i]).finished
           /\ FGt(ns[i].off, ns[i].on)
        THEN [ns[i] EXCEPT !.active = FALSE]
        ELSE ns[i]]

\* a map that skips the notes the frame is about to evict
sounds_kept(insts, now, ns) ==
    LET kept == SelectSeq(mark_notes(insts, now, ns), LAMBDA n : n.active)
    IN  [i \in 1..Len(kept) |-> play_note(insts[kept[i].channel + 1], now, kept[i]).sound]

\* the sounds the closure returns, in the order of the notes
sounds(insts, now, ns) ==
    [i \in 1..Len(ns) |-> play_note(insts[ns[i].channel + 1], now, ns[i]).sound]

\* data.notes.iter().position(|x| !x.active), 0 for None
position_inactive(ns) ==
    IF \E i \in 1..Len(ns) : ~ns[i].active
    THEN CHOOSE i \in 1..Len(ns) :
            /\ ~ns[i].active
            /\ \A j \in 1..(i - 1) : ns[j].active
    ELSE 0

\* Vec::remove(index)
remove(ns, i) == SubSeq(ns, 1, i - 1) \o SubSeq(ns, i + 1, Len(ns))

\* an if let in place of the while let: one round of the eviction loop
evict_once(ns) ==
    IF position_inactive(ns) = 0 THEN ns
    ELSE remove(ns, position_inactive(ns))

\* while let Some(index) = position(..) { data.notes.remove(index); }
RECURSIVE evict(_)
evict(ns) ==
    IF position_inactive(ns) = 0 THEN ns
    ELSE evict(remove(ns, position_inactive(ns)))

\* an Err arm that takes the data out of the poisoned lock and mixes it anyway
make_noise_err_mixes == Sample(sounds(instruments, dt, notes))

\* Err(_) => 0.0
make_noise_err == Silence

\* next() is called; its data.lock() returns Ok
AudioLockClock ==
    /\ pcAu = "idle"
    /\ num_sample < MaxSample
    /\ ~poisoned
    /\ lock_free
    /\ lock' = "audio"
    /\ pcAu' = "adv"
    /\ UNCHANGED <<fixed, shared, poisoned, inputLocals, mixed_output, noise, arm>>

\* next() is called; its data.lock() returns Err: the clock is not advanced
AudioLockClockErr ==
    /\ pcAu = "idle"
    /\ poisoned
    /\ lock_free
    /\ pcAu' = "gap"
    /\ UNCHANGED <<fixed, shared, lock, poisoned, inputLocals, mixed_output,
                   noise, arm>>

\* a next() that computes dt before it increments num_sample
AudioAdvance_stale_clock ==
    /\ pcAu = "adv"
    /\ num_sample' = num_sample + 1
    /\ dt' = FDiv(Rat(num_sample, 1), Rat(sample_rate, 1))
    /\ lock' = "free"
    /\ pcAu' = "gap"
    /\ UNCHANGED <<fixed, notes, poisoned, inputLocals, mixed_output, noise, arm>>

\* a next() that keeps its guard alive over the call of make_noise
AudioAdvance_keeps_guard ==
    /\ pcAu = "adv"
    /\ num_sample' = num_sample + 1
    /\ dt' = FDiv(Rat(num_sample + 1, 1), Rat(sample_rate, 1))
    /\ pcAu' = "gap"
    /\ UNCHANGED <<fixed, notes, lock, poisoned, inputLocals, mixed_output,
                   noise, arm>>

\* num_sample and dt are updated and the guard is dropped
AudioAdvance ==
    /\ pcAu = "adv"
    /\ num_sample' = num_sample + 1
    /\ dt' = FDiv(Rat(num_sample + 1, 1), Rat(sample_rate, 1))
    /\ lock' = "free"
    /\ pcAu' = "gap"
    /\ UNCHANGED <<fixed, notes, poisoned, inputLocals, mixed_output, noise, arm>>

\* make_noise: data.lock() returns Ok
AudioLockNotes ==
    /\ pcAu = "gap"
    /\ ~poisoned
    /\ lock_free
    /\ lock' = "audio"
    /\ pcAu' = "render"
    /\ UNCHANGED <<fixed, shared, poisoned, inputLocals, mixed_output, noise, arm>>

\* make_noise: data.lock() returns Err, next() returns Some(0.0)
AudioLockNotesErr ==
    /\ pcAu = "gap"
    /\ poisoned
    /\ lock_free
    /\ noise' = make_noise_err
    /\ arm' = "Err"
    /\ pcAu' = "idle"
    /\ UNCHANGED <<fixed, shared, lock, poisoned, inputLocals, mixed_output>>

\* make_noise: let dt = data.dt; and the map(..).sum() over the notes
AudioRender ==
    /\ pcAu = "render"
    /\ mixed_output' = sounds(instruments, dt, notes)
    /\ notes' = mark_notes(instruments, dt, notes)
    /\ pcAu' = "evict"
    /\ UNCHANGED <<fixed, num_sample, dt, lock, poisoned, inputLocals, noise, arm>>

\* make_noise: the eviction loop, mixed_output * 0.2, the guard is dropped and
\* next() returns
AudioEvict ==
    /\ pcAu = "evict"
    /\ notes' = evict(notes)
    /\ noise' = Sample(mixed_output)
    /\ arm' = "Ok"
    /\ mixed_output' = <<>>
    /\ lock' = "free"
    /\ pcAu' = "idle"
    /\ UNCHANGED <<fixed, num_sample, dt, poisoned, inputLocals>>

Next ==
    \/ InputLock
    \/ InputReadClock
    \/ InputNoteEvent
    \/ InputUnlock
    \/ InputPanic
    \/ AudioLockClock
    \/ AudioLockClockErr
    \/ AudioAdvance
    \/ AudioLockNotes
    \/ AudioLockNotesErr
    \/ AudioRender
    \/ AudioEvict

Spec == Init /\ [][Next]_vars

\* The engine with the clock stopped after FairMaxSample frames, for the
\* properties that need fair scheduling.  A thread that holds the guard is
\* running, so its steps up to the drop of the guard are taken (weak fairness).
\* A thread inside make_noise's lock() is parked until the guard is dropped;
\* fairness of the Mutex towards it is strong: the keyboard loop relocks at
\* once, so the lock is free again and again but never for good.
FairMaxSample == 5

AudioLockClockFair == AudioLockClock /\ num_sample < FairMaxSample

NextFair ==
    \/ InputLock
    \/ InputReadClock
    \/ InputNoteEvent
    \/ InputUnlock
    \/ InputPanic
    \/ AudioLockClockFair
    \/ AudioLockClockErr
    \/ AudioAdvance
    \/ AudioLockNotes
    \/ AudioLockNotesErr
    \/ AudioRender
    \/ AudioEvict

\* the steps of the keyboard loop between lock() and the drop of the guard
InputHolds == InputReadClock \/ InputNoteEvent \/ InputUnlock \/ InputPanic

\* the steps of a call of next() after its first lock(), the render pass
\* apart
AudioCall == AudioAdvance \/ AudioLockNotes \/ AudioLockNotesErr \/ AudioEvict

\* a frame renders the notes: AudioRender seen on the position of the audio
\* thread alone.  AudioRender is enabled exactly when pcAu = "render" and is
\* the only step that leaves it, so fairness of the render pass is stated on
\* this step.
RenderStep == pcAu = "render" /\ pcAu' = "evict"

SpecFair ==
    /\ Init
    /\ [][NextFair]_vars
    /\ WF_vars(InputHolds)
    /\ SF_vars(AudioCall)
    /\ WF_pcAu(RenderStep)

(***************************************************************************)
(* EnvelopeADSR::amplitude on its own: one call on arguments drawn from a  *)
(* time grid of EnvGrid points per second.  The envelopes are those of the *)
(* presets and the default envelope with its attack or decay set to 0.     *)
(***************************************************************************)
EnvGrid == 20
EnvMaxTick == 32

GridTime(t) == FDiv(Rat(t, 1), Rat(EnvGrid, 1))

Envelopes ==
    {Default_new.env, Bell_new.env, Bell8_new.env, Harmonica_new.env,
     DrumKick_new.env,
     [EnvelopeADSR_new EXCEPT !.attack_time = Zero],
     [EnvelopeADSR_new EXCEPT !.decay_time = Zero]}

InitEnv ==
    /\ instruments = <<Default_new>>
    /\ num_sample = 0
    /\ dt = Zero
    /\ notes = <<>>
    /\ lock = "free"
    /\ poisoned = FALSE
    /\ pcIn = "poll"
    /\ key = 0
    /\ is_pressed = FALSE
    /\ in_dt = Zero
    /\ branch = "none"
    /\ pcAu = "idle"
    /\ mixed_output = <<>>
    /\ noise = Silence
    /\ arm = "none"
    /\ \E env \in Envelopes, now \in 0..EnvMaxTick :
         \E on \in 0..now, off \in 0..now :
            probe = [env |-> env, now |-> GridTime(now), on |-> GridTime(on),
                     off |-> GridTime(off), amp |-> Zero, done |-> FALSE]

\* self.envelope().amplitude(dt, note.on, note.off)
EnvCall ==
    /\ ~probe.done
    /\ probe' = [probe EXCEPT
                    !.amp = amplitude(probe.env, probe.now, probe.on, probe.off),
                    !.done = TRUE]
    /\ UNCHANGED <<instruments, shared, lock, poisoned, inputLocals, audioLocals>>

NextEnv == EnvCall

SpecEnv == InitEnv /\ [][NextEnv]_vars

(***************************************************************************)
(* note.rs and the transposition of play_note: the pitch whose frequency   *)
(* an oscillator renders.  Integers keep the width of their Rust type; an  *)
(* arithmetic overflow panics in a build with overflow checks ("debug")    *)
(* and wraps in one without ("release").                                   *)
(***************************************************************************)
MaxNoteId == 127

NoteOffsets == {-36, 0, 12, 24, 36}

Builds == {"debug", "release"}

\* the result of an integer expression: a value, or a panic
Ok(v) == [ok |-> TRUE, v |-> v]
Panic == [ok |-> FALSE, v |-> 0]

\* `x as i8` and `x as u8`: the low 8 bits
as_i8(x) == LET m == x % 256 IN IF m >= 128 THEN m - 256 ELSE m
as_u8(x) == x % 256

\* a + b on i8, a + b and a * b on u8, given their exact value x
i8_arith(x, build) ==
    IF x \in -128..127 THEN Ok(x)
    ELSE IF build = "debug" THEN Panic ELSE Ok(as_i8(x))

u8_arith(x, build) ==
    IF x \in 0..255 THEN Ok(x)
    ELSE IF build = "debug" THEN Panic ELSE Ok(as_u8(x))

\* Rust's % on i8: the remainder has the sign of the dividend
rem(a, b) == IF a >= 0 THEN a % b ELSE -((-a) % b)

NoteLetter == [C |-> 0, D |-> 2, E |-> 4, F |-> 5, G |-> 7, A |-> 9, B |-> 11]
Accidental == [Flat |-> -1, Sharp |-> 1, None |-> 0]

Note_new(letter, accidental, oct) ==
    [letter |-> letter, accidental |-> accidental, octave |-> oct]

\* impl From<u8> for Note
Note_from(val) ==
    LET oct == val \div 12
        m == val % 12
    IN  CASE m = 0 -> Note_new("C", "None", oct)
          [] m = 1 -> Note_new("C", "Sharp", oct)
          [] m = 2 -> Note_new("D", "None", oct)
          [] m = 3 -> Note_new("D", "Sharp", oct)
          [] m = 4 -> Note_new("E", "None", oct)
          [] m = 5 -> Note_new("F", "None", oct)
          [] m = 6 -> Note_new("F", "Sharp", oct)
          [] m = 7 -> Note_new("G", "None", oct)
          [] m = 8 -> Note_new("G", "Sharp", oct)
          [] m = 9 -> Note_new("A", "None", oct)
          [] m = 10 -> Note_new("A", "Sharp", oct)
          [] m = 11 -> Note_new("B", "None", oct)

\* Note::into_u8
into_u8(note, build) ==
    LET semitone == as_u8(rem(NoteLetter[note.letter] + Accidental[note.accidental], 12))
        base == u8_arith(note.octave * 12, build)
    IN  IF base.ok THEN u8_arith(semitone + base.v, build) ELSE Panic

\* note.id as i8 + config.note_offset
offset_sum(id, note_offset, build) == i8_arith(as_i8(id) + note_offset, build)

\* Note::from((note.id as i8 + config.note_offset) as u8), then the into_u8 of
\* freq()
rendered_pitch(id, note_offset, build) ==
    LET sum == offset_sum(id, note_offset, build)
    IN  IF sum.ok THEN into_u8(Note_from(as_u8(sum.v)), build) ELSE Panic

\* one oscillator of one call of play_note
InitNote ==
    /\ instruments = <<Default_new>>
    /\ num_sample = 0
    /\ dt = Zero
    /\ notes = <<>>
    /\ lock = "free"
    /\ poisoned = FALSE
    /\ pcIn = "poll"
    /\ key = 0
    /\ is_pressed = FALSE
    /\ in_dt = Zero
    /\ branch = "none"
    /\ pcAu = "idle"
    /\ mixed_output = <<>>
    /\ noise = Silence
    /\ arm = "none"
    /\ \E id \in 0..MaxNoteId, note_offset \in NoteOffsets, build \in Builds :
          probe = [id |-> id, note_offset |-> note_offset, build |-> build,
                   sum |-> Ok(0), pitch |-> Ok(0), done |-> FALSE]

NoteCall ==
    /\ ~probe.done
    /\ probe' = [probe EXCEPT
                    !.sum = offset_sum(probe.id, probe.note_offset, probe.build),
                    !.pitch = rendered_pitch(probe.id, probe.note_offset, probe.build),
                    !.done = TRUE]
    /\ UNCHANGED <<instruments, shared, lock, poisoned, inputLocals, audioLocals>>

NextNote == NoteCall

SpecNote == InitNote /\ [][NextNote]_vars

(***************************************************************************)
(* Properties                                                              *)
(***************************************************************************)
Ids(ns) == {ns[i].id : i \in 1..Len(ns)}

\* the keyboard loop runs its find-and-edit
NoteEventStep == pcIn = "edit" /\ pcIn' = "print"

\* a frame runs its eviction loop and returns
EvictStep == pcAu = "evict" /\ pcAu' = "idle"

InputSection == {"locked", "edit", "print"}
AudioSection == {"adv", "render", "evict"}

\* C1: notes never holds two Notes with the same pitch id, and a press on a
\* pitch whose Note is in notes does not change the length of notes.
C1_OneNotePerPitch ==
    /\ [](\A i, j \in 1..Len(notes) : notes[i].id = notes[j].id => i = j)
    /\ [][NoteEventStep /\ is_pressed /\ note_id \in Ids(notes)
            => Len(notes') = Len(notes)]_vars

\* a press on a pitch that is sounding has just been handled, with the other
\* pitch in notes too
C1_Witness ==
    /\ pcIn = "print"
    /\ branch = "held"
    /\ Len(notes) = 2

\* the clock before the current frame advanced it
PrevClock == FDiv(Rat(num_sample - 1, 1), Rat(sample_rate, 1))

\* C2: a Note that was released with its envelope amplitude at 0 when a frame
\* started is not in notes any more when that frame returns.
C2_Original ==
    [][EvictStep =>
        \A i \in 1..Len(notes) :
            (/\ FLe(notes[i].on, notes[i].off)
             /\ FLe(notes[i].off, PrevClock)
             /\ amplitude(instruments[notes[i].channel + 1].env, PrevClock,
                          notes[i].on, notes[i].off) = Zero)
            => notes[i].id \notin Ids(notes')]_vars

\* the Note at index i of notes has outlived its instrument's max_lifetime
PastLifetime(i) ==
    LET inst == instruments[notes[i].channel + 1]
    IN  /\ FGt(inst.max_lifetime, Zero)
        /\ FGe(FSub(dt, notes[i].on), inst.max_lifetime)

\* C3 as claimed: a frame marks inactive and removes every Note that has
\* outlived max_lifetime, released or not.
C3_Original ==
    [][/\ RenderStep =>
            \A i \in 1..Len(notes) : PastLifetime(i) => ~notes'[i].active
       /\ EvictStep =>
            \A i \in 1..Len(notes) : ~notes[i].active => notes[i].id \notin Ids(notes')
      ]_vars

\* C4: a press on a pitch whose Note is in notes with off >= on sets its on to
\* the clock and active to TRUE and changes nothing else in notes.
C4_Original ==
    [][NoteEventStep /\ is_pressed =>
        \A i \in 1..Len(notes) :
            (notes[i].id = note_id /\ FGe(notes[i].off, notes[i].on))
            => notes' = [notes EXCEPT ![i].on = dt, ![i].active = TRUE]]_vars

\* C5: a press on a pitch with no Note appends one Note with that id, on = the
\* clock, off = 0, active, and leaves the other Notes, the clock and the sample
\* counter as they were.
C5_Create ==
    [][NoteEventStep /\ is_pressed /\ note_id \notin Ids(notes) =>
        /\ Len(notes') = Len(notes) + 1
        /\ \A j \in 1..Len(notes) : notes'[j] = notes[j]
        /\ notes'[Len(notes')].id = note_id
        /\ notes'[Len(notes')].on = dt
        /\ notes'[Len(notes')].off = Zero
        /\ notes'[Len(notes')].active
        /\ dt' = dt
        /\ num_sample' = num_sample]_vars

\* a second Note has just been created at a clock after the first frame
C5_Witness ==
    /\ pcIn = "print"
    /\ branch = "create"
    /\ Len(notes) = 2
    /\ notes[2].on # Zero

\* C6: a release on a sounding pitch (on > off) sets that Note's off to the
\* clock and nothing else; any other release leaves notes, the clock and the
\* sample counter as they were.
C6_Release ==
    [][NoteEventStep /\ ~is_pressed =>
        /\ \A i \in 1..Len(notes) :
              (notes[i].id = note_id /\ FGt(notes[i].on, notes[i].off))
              => notes' = [notes EXCEPT ![i].off = dt]
        /\ (\A i \in 1..Len(notes) :
              notes[i].id = note_id => ~FGt(notes[i].on, notes[i].off))
           => notes' = notes
        /\ dt' = dt
        /\ num_sample' = num_sample]_vars

\* a sounding Note has just been released while another Note is in notes
C6_Witness ==
    /\ pcIn = "print"
    /\ branch = "release"
    /\ Len(notes) = 2

\* C7: the keyboard loop and the audio thread are never both inside a section
\* that touches notes or the clock; the clock a note event read is still the
\* clock when it edits, and nothing but the event itself changes notes, the
\* clock or the sample counter while the loop is inside its section.
C7_MutualExclusion ==
    /\ [](~(pcIn \in InputSection /\ pcAu \in AudioSection))
    /\ [](pcIn \in {"edit", "print"} => in_dt = dt)
    /\ [][(pcIn \in InputSection /\ ~NoteEventStep) => (shared' = shared)]_vars

\* the audio thread waits for the lock while a note event is between its clock
\* read and its edit
C7_Witness ==
    /\ pcIn = "edit"
    /\ pcAu = "gap"
    /\ Len(notes) > 0

\* C8: a next() whose lock() fails returns the sample 0 and leaves notes as
\* they were; the failed lock() finds the Mutex free, so it does not wait.
C8_LockFailure ==
    /\ [](poisoned => lock = "free")
    /\ [][poisoned /\ pcAu = "gap" /\ pcAu' = "idle"
            => (\A i \in 1..Len(noise'.terms) : noise'.terms[i].amp = Zero)]_vars
    /\ [][poisoned /\ pcAu' # pcAu => notes' = notes /\ pcAu' \in {"gap", "idle"}]_vars

\* a next() has returned through the Err arm while a Note was in notes
C8_Witness ==
    /\ arm = "Err"
    /\ pcAu = "idle"
    /\ Len(notes) > 0

\* C9: a frame removes a Note of the Default instrument only if the Note has
\* been released and its envelope amplitude at the frame's clock is 0.
C9_Original ==
    [][EvictStep =>
        \A i \in 1..Len(notes) :
            (/\ instruments[notes[i].channel + 1].name = "Default"
             /\ notes[i].id \notin Ids(notes'))
            => /\ FLe(notes[i].on, notes[i].off)
               /\ amplitude(instruments[notes[i].channel + 1].env, dt,
                            notes[i].on, notes[i].off) = Zero]_vars

ZeroPhase(env) ==
    env.attack_time = Zero \/ env.decay_time = Zero \/ env.release_time = Zero

\* C10: with a zero-length phase amplitude still returns a finite value: 0 for a
\* released note when release_time is 0, start_amplitude at the instant of
\* the press when attack_time is 0.
C10_Original ==
    (probe.done /\ ZeroPhase(probe.env)) =>
        /\ IsFinite(probe.amp)
        /\ (probe.env.release_time = Zero /\ FLe(probe.on, probe.off))
           => probe.amp = Zero
        /\ (probe.env.attack_time = Zero /\ FGt(probe.on, probe.off)
                /\ probe.now = probe.on)
           => probe.amp = probe.env.start_amplitude

\* the grid times from the release stamp of the probed call up to its `now`
ReleaseGrid == {t \in 0..EnvMaxTick :
                   FGe(GridTime(t), probe.off) /\ FLe(GridTime(t), probe.now)}

FrameClock == FDiv(Rat(num_sample, 1), Rat(sample_rate, 1))

\* C13: the sample a frame returns is the master gain 0.2 times the sum of one
\* rendered sample per Note that was in notes when the frame took the lock,
\* each at the frame's clock, the Notes the frame evicts included; with no
\* Notes it is 0.
C13_Mixing ==
    [][EvictStep =>
        /\ noise'.gain = Rat(2, 10)
        /\ Len(noise'.terms) = Len(notes)
        /\ \A i \in 1..Len(notes) :
              /\ noise'.terms[i].id = notes[i].id
              /\ noise'.terms[i].amp =
                    amplitude(instruments[notes[i].channel + 1].env, FrameClock,
                              notes[i].on, notes[i].off)
        /\ (notes = <<>> => noise' = Silence)]_vars

\* a frame has returned a sample that holds the audible sound of a Note the
\* frame evicted
C13_Witness ==
    /\ pcAu = "idle"
    /\ arm = "Ok"
    /\ pcIn = "poll"
    /\ Len(noise.terms) > Len(notes)
    /\ \E i \in 1..Len(noise.terms) :
          FGt(noise.terms[i].amp, Zero) /\ noise.terms[i].id \notin Ids(notes)

\* the Notes of ns whose key is held: on > off
Sounding(ns) == SelectSeq(ns, LAMBDA n : FGt(n.on, n.off))

\* C14: a frame does not mark a Note with on > off inactive, and when it
\* returns these Notes are in notes as they were, in the same order.
C14_SoundingKept ==
    [][/\ RenderStep =>
            \A i \in 1..Len(notes) :
                FGt(notes[i].on, notes[i].off) => notes'[i] = notes[i]
       /\ EvictStep => Sounding(notes') = Sounding(notes)
       /\ (RenderStep \/ EvictStep) =>
            \A i \in 1..Len(notes) :
                FGt(notes[i].on, notes[i].off) => notes[i].active
      ]_vars

\* a frame has returned that evicted the first Note and kept the second one,
\* a held Note that has outlived its instrument's max_lifetime
C14_Witness ==
    /\ pcAu = "idle"
    /\ arm = "Ok"
    /\ Len(noise.terms) = 2
    /\ Len(notes) = 1
    /\ notes[1].id = noise.terms[2].id
    /\ FGt(notes[1].on, notes[1].off)
    /\ PastLifetime(1)

\* C15: after a press on a pitch that is not sounding (no Note, or a Note with
\* on <= off) the Note of that pitch has on > off, whatever the clock is; so
\* no Note is ever left with on = off, the state that no press, release or
\* frame changes.
C15_Original ==
    /\ [][(/\ NoteEventStep
           /\ is_pressed
           /\ \A i \in 1..Len(notes) :
                 notes[i].id = note_id => ~FGt(notes[i].on, notes[i].off))
          => \E i \in 1..Len(notes') :
                 notes'[i].id = note_id /\ FGt(notes'[i].on, notes'[i].off)]_vars
    /\ [](\A i \in 1..Len(notes) : notes[i].on # notes[i].off)

C17_AllActive ==
    /\ [](lock = "free" => \A i \in 1..Len(notes) : notes[i].active)
    /\ [][EvictStep =>
            /\ \A i \in 1..Len(notes') : notes'[i].active
            /\ \A i \in 1..Len(notes) :
                  notes[i].active <=> (notes[i].id \in Ids(notes'))
            /\ \A i, j \in 1..Len(notes') :
                  i < j => \E k, l \in 1..Len(notes) :
                              k < l /\ notes[k] = notes'[i] /\ notes[l] = notes'[j]
      ]_vars

\* a frame has returned that evicted two Notes at once
C17_Witness ==
    /\ pcAu = "idle"
    /\ arm = "Ok"
    /\ lock = "free"
    /\ Len(noise.terms) = 2
    /\ notes = <<>>

\* C18: a call of next() that gets the lock adds exactly 1 to the sample
\* counter, once, and sets the clock to counter / sample_rate before the notes
\* are rendered, so the render pass of the n-th such frame runs at clock
\* n / sample_rate; the steps of the keyboard loop change neither.
C18_Clock ==
    /\ [][(num_sample' # num_sample) =>
            (pcAu = "adv" /\ pcAu' = "gap" /\ num_sample' = num_sample + 1)]_vars
    /\ [][(pcAu = "adv" /\ pcAu' # pcAu) => (num_sample' = num_sample + 1)]_vars
    /\ []((pcAu \in {"gap", "render", "evict"} /\ ~poisoned)
            => (dt.k = "fin" /\ dt.n * sample_rate = num_sample * dt.d))
    /\ [][(pcAu' = pcAu) => (dt' = dt /\ num_sample' = num_sample)]_vars
    /\ [][(pcAu \in {"gap", "render", "evict"}) => (num_sample' = num_sample)]_vars

\* the third frame renders a Note while the keyboard loop waits for the lock
C18_Witness ==
    /\ pcAu = "render"
    /\ num_sample = 3
    /\ dt = Rat(3, sample_rate)
    /\ Len(notes) > 0

\* C19: play_note of the Default instrument never reports finished, however
\* long ago the Note was pressed.
C19_Original ==
    [][RenderStep =>
        \A i \in 1..Len(notes) :
            instruments[notes[i].channel + 1].name = "Default"
            => ~play_note(instruments[notes[i].channel + 1], dt, notes[i]).finished
      ]_vars

\* C20: for every id in 0..127 and every offset of the presets, the pitch
\* whose frequency is rendered is id + offset, and neither the i8 addition
\* nor the cast to u8 overflows or wraps.
C20_Original ==
    probe.done =>
        /\ probe.sum = Ok(probe.id + probe.note_offset)
        /\ probe.id + probe.note_offset >= 0
        /\ probe.pitch = Ok(probe.id + probe.note_offset)

\* the envelopes of the five presets
PresetEnvelopes ==
    {Default_new.env, Bell_new.env, Bell8_new.env, Harmonica_new.env,
     DrumKick_new.env}

\* C21: for every preset envelope and every now, on, off with on <= now and
\* off <= now, amplitude returns a value in [0, 1] that is 0 or larger than
\* 0.0001.
C21_Original ==
    (probe.done /\ probe.env \in PresetEnvelopes) =>
        /\ IsFinite(probe.amp)
        /\ FGe(probe.amp, Zero)
        /\ FLe(probe.amp, Rat(1, 1))
        /\ (probe.amp = Zero \/ FGt(probe.amp, Rat(1, 10000)))

====
